---------------------------- MODULE Spec2Model ----------------------------
(***************************************************************************)
(* Model of the Little Lemon home screen (src/screens/HomeScreen.js): the  *)
(* menu store (DatabaseOperations over one SQLite table), the first-run    *)
(* bootstrap from the remote menu document, and the filter coordinator     *)
(* (debounced search text, category toggles, the filter effect).           *)
(*                                                                         *)
(* Text is a sequence of one-character strings.  A row of the `menu` table *)
(* is a record [id, name, price, description, image, category].            *)
(***************************************************************************)
EXTENDS Integers, Sequences, FiniteSets, Bags, TLC

(***************************************************************************)
(* Bounds of the model.                                                    *)
(***************************************************************************)
\* most Filter queries awaiting their result at once
MaxInFlight == 2
\* most HomeScreen instances mounted one after the other on one database
MaxInstances == 2
\* longest search text enumerated for the store's Filter query
MaxTextLen == 2
\* saveChanges calls of the profile editor awaiting their writes at once
MaxSaves == 1

(***************************************************************************)
(* Text: characters, case folding, trimming.                               *)
(***************************************************************************)
\* the characters the model types and stores, with their byte values
Code(c) ==
  CASE c = " " -> 32
    [] c = "%" -> 37
    [] c = "A" -> 65
    [] c = "S" -> 83
    [] c = "_" -> 95
    [] c = "a" -> 97
    [] c = "s" -> 115

Alphabet == {" ", "%", "A", "S", "_", "a", "s"}

\* SQLite's LIKE folds the ASCII letters
Lower(c) ==
  CASE c = "A" -> "a"
    [] c = "S" -> "s"
    [] OTHER -> c

IsSpace(c) == c = " "

RECURSIVE TrimStart(_)
TrimStart(s) ==
  IF s = <<>> THEN <<>>
  ELSE IF IsSpace(Head(s)) THEN TrimStart(Tail(s)) ELSE s

RECURSIVE TrimEnd(_)
TrimEnd(s) ==
  IF s = <<>> THEN <<>>
  ELSE IF IsSpace(s[Len(s)]) THEN TrimEnd(SubSeq(s, 1, Len(s) - 1)) ELSE s

\* String.prototype.trim
Trim(s) == TrimEnd(TrimStart(s))

(***************************************************************************)
(* The LIKE operator of the store: `%` matches any run of characters, `_`  *)
(* any one character, every other character itself up to ASCII case.  The  *)
(* query sets no ESCAPE character.                                         *)
(***************************************************************************)
RECURSIVE Like(_, _)
Like(pat, str) ==
  IF pat = <<>> THEN str = <<>>
  ELSE IF Head(pat) = "%"
    THEN \E k \in 0..Len(str) : Like(Tail(pat), SubSeq(str, k + 1, Len(str)))
  ELSE IF str = <<>> THEN FALSE
  ELSE IF Head(pat) = "_" THEN Like(Tail(pat), Tail(str))
  ELSE Lower(Head(pat)) = Lower(Head(str)) /\ Like(Tail(pat), Tail(str))

(***************************************************************************)
(* ORDER BY name: the column's BINARY collation compares byte by byte.     *)
(* Rows of equal name come out in rowid order.                             *)
(***************************************************************************)
RECURSIVE NameLess(_, _)
NameLess(a, b) ==
  IF b = <<>> THEN FALSE
  ELSE IF a = <<>> THEN TRUE
  ELSE IF Code(Head(a)) < Code(Head(b)) THEN TRUE
  ELSE IF Code(Head(a)) > Code(Head(b)) THEN FALSE
  ELSE NameLess(Tail(a), Tail(b))

RowBeforeByRowid(r, q) == r.id < q.id

RowBefore(r, q) ==
  NameLess(r.name, q.name) \/ (r.name = q.name /\ r.id < q.id)

RECURSIVE InsertSorted(_, _)
InsertSorted(r, sorted) ==
  IF sorted = <<>> THEN <<r>>
  ELSE IF RowBefore(r, Head(sorted)) THEN <<r>> \o sorted
  ELSE <<Head(sorted)>> \o InsertSorted(r, Tail(sorted))

RECURSIVE OrderByName(_)
OrderByName(rs) ==
  IF rs = <<>> THEN <<>>
  ELSE InsertSorted(Head(rs), OrderByName(Tail(rs)))

Range(s) == {s[i] : i \in 1..Len(s)}

(***************************************************************************)
(* DatabaseOperations: the queries of the menu store, over the table's     *)
(* rows in rowid order.                                                    *)
(***************************************************************************)
\* SELECT * FROM menu ORDER BY name
getAllMenuItems(table) == OrderByName(table)

\* the text condition is added when the trimmed search text is non-empty
HasTextConstraint(searchText) == Trim(searchText) # <<>>

\* the bound parameter of `name LIKE ?`
LikePattern(searchText) == <<"%">> \o Trim(searchText) \o <<"%">>

\* the category condition is added when the array is non-empty
HasCategoryConstraint(categories) == Len(categories) > 0

FilterWhere(r, searchText, categories) ==
  /\ HasTextConstraint(searchText) => Like(LikePattern(searchText), r.name)
  /\ HasCategoryConstraint(categories) => r.category \in Range(categories)

\* SELECT * FROM menu WHERE 1=1 [AND name LIKE ?] [AND category IN (..)] ORDER BY name
filterBySearchAndCategories(table, searchText, categories) ==
  LET Keep(r) == FilterWhere(r, searchText, categories)
  IN OrderByName(SelectSeq(table, Keep))

\* SELECT DISTINCT category FROM menu ORDER BY category, mapped to the values
CategoryOrder == <<"Desserts", "Main", "Starters">>

getCategories(table) ==
  LET Present(c) == \E i \in 1..Len(table) : table[i].category = c
  IN SelectSeq(CategoryOrder, Present)

\* item.category || 'Main'
CategoryOrDefault(item) ==
  IF "category" \in DOMAIN item /\ item.category # "" THEN item.category ELSE "Main"

\* one INSERT of saveMenuItems: the row the table gains, id by AUTOINCREMENT
InsertedRow(table, item) ==
  [id |-> Len(table) + 1, name |-> item.name, price |-> item.price,
   description |-> item.description, image |-> item.image,
   category |-> CategoryOrDefault(item)]

(***************************************************************************)
(* The remote menu source.  A fetch either fails, or answers with a body   *)
(* that either fails to parse or parses to one of these documents.         *)
(***************************************************************************)
RemoteMenu ==
  << [name |-> <<"S", "a">>, price |-> 12, description |-> "", image |-> "sa.jpg"],
     [name |-> <<"A">>, price |-> 5, description |-> "cake", image |-> "a.jpg",
      category |-> "Desserts"] >>

\* a menu whose one element gives its category as the empty string
UntaggedMenu ==
  << [name |-> <<"s">>, price |-> 3, description |-> "", image |-> "s.jpg",
      category |-> ""] >>

Docs ==
  { [hasMenu |-> TRUE, isArray |-> TRUE, menu |-> RemoteMenu],
    [hasMenu |-> TRUE, isArray |-> TRUE, menu |-> UntaggedMenu],
    [hasMenu |-> TRUE, isArray |-> TRUE, menu |-> <<>>],
    [hasMenu |-> TRUE, isArray |-> FALSE, menu |-> <<>>],
    [hasMenu |-> FALSE, isArray |-> FALSE, menu |-> <<>>] }

\* data.menu && Array.isArray(data.menu)
IsMenuArray(data) == data.hasMenu /\ data.isArray

\* mutant of HasRows: the test is off by one row
HasRowsOffByOne(result) == Len(result) > 1

\* result.length > 0
HasRows(result) == Len(result) > 0

\* the search texts typed into the banner's field
SearchTexts == {<<>>, <<"s">>}

(***************************************************************************)
(* The profile editor (Profile): its text functions, its state and the     *)
(* AsyncStorage records it reads and writes.                               *)
(***************************************************************************)
IsDigit(c) == c \in {"0", "1", "2", "3", "4", "5", "6", "7", "8", "9"}

\* value.replace(/\D/g, '')
DigitsOf(value) == SelectSeq(value, IsDigit)

\* s.substring(from, to) and s.substring(from)
Substring(s, from, to) == SubSeq(s, from + 1, IF to < Len(s) THEN to ELSE Len(s))
SubstringFrom(s, from) == SubSeq(s, from + 1, Len(s))

\* mutant of formatPhoneNumber: the digits are not cut to ten
formatPhoneNumberKeepsAllDigits(value) ==
  LET numbers == DigitsOf(value)
      truncated == numbers
  IN IF Len(truncated) >= 6
     THEN <<"(">> \o Substring(truncated, 0, 3) \o <<")", " ">>
            \o Substring(truncated, 3, 6) \o <<"-">> \o SubstringFrom(truncated, 6)
     ELSE IF Len(truncated) >= 3
     THEN <<"(">> \o Substring(truncated, 0, 3) \o <<")", " ">>
            \o SubstringFrom(truncated, 3)
     ELSE IF Len(truncated) > 0
     THEN <<"(">> \o truncated
     ELSE truncated

formatPhoneNumber(value) ==
  LET numbers == DigitsOf(value)
      truncated == Substring(numbers, 0, 10)
  IN IF Len(truncated) >= 6
     THEN <<"(">> \o Substring(truncated, 0, 3) \o <<")", " ">>
            \o Substring(truncated, 3, 6) \o <<"-">> \o SubstringFrom(truncated, 6)
     ELSE IF Len(truncated) >= 3
     THEN <<"(">> \o Substring(truncated, 0, 3) \o <<")", " ">>
            \o SubstringFrom(truncated, 3)
     ELSE IF Len(truncated) > 0
     THEN <<"(">> \o truncated
     ELSE truncated

isValidPhoneNumber(phone) == Len(DigitsOf(phone)) = 10

\* /^[^\s@]+@[^\s@]+\.[^\s@]+$/.test(email)
emailRegexTest(email) ==
  \E i \in 1..Len(email) : \E j \in 1..Len(email) :
    /\ email[i] = "@"
    /\ email[j] = "."
    /\ 1 < i
    /\ i + 1 < j
    /\ j < Len(email)
    /\ \A k \in (1..Len(email)) \ {i} : ~IsSpace(email[k]) /\ email[k] # "@"

\* !s.trim()
IsBlank(s) == Trim(s) = <<>>

\* JSON.stringify({firstName, lastName, email}) and its JSON.parse
UserDataJson(p) == [firstName |-> p.firstName, lastName |-> p.lastName, email |-> p.email]

\* JSON.stringify({phoneNumber, avatar, notifications}) and its JSON.parse
SettingsJson(p) ==
  [phoneNumber |-> p.phoneNumber, avatar |-> p.avatar, notifications |-> p.notifications]

\* loadProfileData's two setProfileData updaters; an item is <<>> when the key is
\* absent, << record >> otherwise
WithUserData(p, item) ==
  IF item = <<>> THEN p
  ELSE [p EXCEPT !.firstName = item[1].firstName,
                 !.lastName = item[1].lastName,
                 !.email = item[1].email]

WithSettings(p, item) ==
  IF item = <<>> THEN p
  ELSE [p EXCEPT !.phoneNumber = item[1].phoneNumber,
                 !.avatar = item[1].avatar,
                 !.notifications = item[1].notifications]

\* { ...a, ...b }: the keys of both objects, b's value where both have the key
Merge(a, b) ==
  [k \in DOMAIN a \cup DOMAIN b |-> IF k \in DOMAIN b THEN b[k] ELSE a[k]]

\* mutant of CombinedData: the settings record is not spread in
CombinedDataIgnoresSettings(userItem, settingsItem) == userItem[1]

\* HomeScreen.loadUserData's combinedData, from the two items read
CombinedData(userItem, settingsItem) ==
  IF settingsItem = <<>> THEN userItem[1] ELSE Merge(userItem[1], settingsItem[1])

VARIABLES
  storage,              \* AsyncStorage: the items under 'onboardingCompleted', 'userData'
                        \* and 'profileSettings', each <<>> when absent
  isOnboardingCompleted, \* App useState isOnboardingCompleted
  appPc,                \* the await of checkOnboardingStatus or handleOnboardingComplete
  userInfo,             \* handleOnboardingComplete's argument while it runs
  logoutPc,             \* the multiRemove a confirmed logout awaits
  profileData,          \* Profile useState profileData
  phoneInput,           \* the text last passed to handleInputChange('phoneNumber', ..)
  hasChanges,           \* Profile useState hasChanges
  loadPc,               \* the await loadProfileData is suspended at
  loadedUserData,       \* loadProfileData's local userData
  saves,                \* the saveChanges calls awaiting a setItem: the key and the data written
  profileAlert          \* the Alert the profile editor showed last

profileVars ==
  << storage, profileData, phoneInput, hasChanges, loadPc, loadedUserData, saves,
     profileAlert >>

appVars == << isOnboardingCompleted, appPc, userInfo, logoutPc >>

\* the app shows the main flow and none of App's handlers is running
AppAtHome ==
  /\ isOnboardingCompleted = TRUE
  /\ appPc = "idle"
  /\ userInfo = <<>>
  /\ logoutPc = "idle"

\* the record App stored under 'userData' when onboarding completed
OnboardedUser == [firstName |-> <<"J">>, lastName |-> <<"D">>,
                  email |-> <<"a", "@", "b", ".", "c">>]

\* the useState initial value of profileData
DefaultProfile ==
  [firstName |-> <<>>, lastName |-> <<>>, email |-> <<>>, phoneNumber |-> <<>>,
   avatar |-> "null",
   notifications |-> [orderStatuses |-> TRUE, passwordChanges |-> TRUE,
                      specialOffers |-> TRUE, newsletter |-> TRUE]]

\* a freshly mounted Profile of the onboarded user u: the useState initial values,
\* the mount effect has called loadProfileData
ProfileMounted(u) ==
  /\ storage = [onboardingCompleted |-> <<"true">>, userData |-> <<u>>,
                profileSettings |-> <<>>]
  /\ profileData = DefaultProfile
  /\ phoneInput = <<>>
  /\ hasChanges = FALSE
  /\ loadPc = "userData"
  /\ loadedUserData = <<>>
  /\ saves = EmptyBag
  /\ profileAlert = "none"

(***************************************************************************)
(* State of the home screen.                                               *)
(***************************************************************************)
VARIABLES
  table,                \* the rows of the menu table, in rowid order (persisted)
  instance,             \* which HomeScreen instance is mounted: 1, 2, ..
  pc,                   \* the await initializeDatabase() is suspended at
  db,                   \* useState db: TRUE once setDb(database) ran
  userData,             \* useState userData: <<>> for null, << view >> once loadUserData set it
  menuItems,            \* useState menuItems
  filteredMenuItems,    \* useState filteredMenuItems: the visible items
  categories,           \* useState categories
  selectedCategories,   \* useState selectedCategories
  searchText,           \* useState searchText: the raw text
  debouncedSearchText,  \* useDebounce's debouncedValue
  timer,                \* the pending setTimeouts of useDebounce: the value each will set
  loading,              \* useState loading
  menu,                 \* data.menu while saveMenuItems runs
  idx,                  \* index in menu of the INSERT awaited, 0 when none
  inFlight,             \* the Filter queries handleFilter awaits
  alerts,               \* Alert.alert calls of this instance
  nFetch,               \* fetch() calls of this instance
  nInsert,              \* rows this instance inserted
  outcome,              \* how this instance's loadMenuData went
  prev                  \* the previous instance: its outcome, and the row count when it had finished

vars ==
  << table, instance, pc, db, userData, menuItems, filteredMenuItems, categories,
     selectedCategories, searchText, debouncedSearchText, timer, loading, menu, idx,
     inFlight, alerts, nFetch, nInsert, outcome, prev, storage, profileData,
     phoneInput, hasChanges, loadPc, loadedUserData, saves, profileAlert,
     isOnboardingCompleted, appPc, userInfo, logoutPc >>

homeVars ==
  << table, instance, pc, db, userData, menuItems, filteredMenuItems, categories,
     selectedCategories, searchText, debouncedSearchText, timer, loading, menu, idx,
     inFlight, alerts, nFetch, nInsert, outcome, prev >>

uiVars == << selectedCategories, searchText, debouncedSearchText, timer >>
bootVars == << menu, idx, nFetch, nInsert, outcome, alerts >>

NoPrev == [outcome |-> "none", rows |-> -1]

\* a freshly mounted HomeScreen: the useState initial values, and the mount effects
\* have run (initializeDatabase awaits openDatabaseAsync, the debounce timer is set)
Init ==
  /\ table = <<>>
  /\ instance = 1
  /\ prev = NoPrev
  /\ pc = "open"
  /\ db = FALSE
  /\ userData = <<>>
  /\ menuItems = <<>>
  /\ filteredMenuItems = <<>>
  /\ categories = <<>>
  /\ selectedCategories = <<>>
  /\ searchText = <<>>
  /\ debouncedSearchText = <<>>
  /\ timer = << <<>> >>
  /\ loading = TRUE
  /\ menu = <<>>
  /\ idx = 0
  /\ inFlight = EmptyBag
  /\ alerts = 0
  /\ nFetch = 0
  /\ nInsert = 0
  /\ outcome = "none"
  /\ ProfileMounted(OnboardedUser)
  /\ AppAtHome

(***************************************************************************)
(* handleFilter and the filter effect.                                     *)
(***************************************************************************)
\* a Filter query awaited by handleFilter: its arguments, and the number of table
\* rows it read (-1 until the store has run it)
Query(text, cats) == [text |-> text, cats |-> cats, snap |-> -1]

\* handleFilter up to its await: `if (!db) return`, then the query is issued.  The
\* awaited queries form a bag: they return in any order.
handleFilter(dbNow, text, cats, queries) ==
  IF ~dbNow THEN queries ELSE queries (+) SetToBag({Query(text, cats)})

\* useEffect(.., [debouncedSearchText, selectedCategories, db]): `if (db) handleFilter()`
FilterEffect(dbNow, text, cats, queries) ==
  IF dbNow THEN handleFilter(dbNow, text, cats, queries) ELSE queries

\* the rows a query returns: it reads the table as it stood when the store ran it
QueryResult(q) ==
  filterBySearchAndCategories(
    SubSeq(table, 1, IF q.snap = -1 THEN Len(table) ELSE q.snap), q.text, q.cats)

Without(queries, q) == queries (-) SetToBag({q})

\* the awaits of loadMenuData during which the table may still gain rows
BootstrapPcs == {"getAll1", "fetch", "json", "insert"}

\* the store runs an awaited Filter query.  Recorded as a step of its own only while
\* the table may still change; afterwards running and returning read the same rows.
FilterExec ==
  /\ pc \in BootstrapPcs
  /\ \E q \in BagToSet(inFlight) :
       /\ q.snap = -1
       /\ inFlight' = Without(inFlight, q) (+) SetToBag({[q EXCEPT !.snap = Len(table)]})
  /\ UNCHANGED << table, instance, pc, db, userData, menuItems, filteredMenuItems,
                  categories, uiVars, loading, bootVars, prev >>
  /\ UNCHANGED << profileVars, appVars >>

\* handleFilter after its await: setFilteredMenuItems(filtered)
FilterReturn ==
  /\ \E q \in BagToSet(inFlight) :
       /\ filteredMenuItems' = QueryResult(q)
       /\ inFlight' = Without(inFlight, q)
  /\ UNCHANGED << table, instance, pc, db, userData, menuItems, categories, uiVars,
                  loading, bootVars, prev >>
  /\ UNCHANGED << profileVars, appVars >>

\* handleFilter's catch: the query was rejected, the error is logged
FilterFail ==
  /\ \E q \in BagToSet(inFlight) : inFlight' = Without(inFlight, q)
  /\ UNCHANGED << table, instance, pc, db, userData, menuItems, filteredMenuItems,
                  categories, uiVars, loading, bootVars, prev >>
  /\ UNCHANGED << profileVars, appVars >>

(***************************************************************************)
(* initializeDatabase, loadMenuData, fetchAndStoreMenuData, loadCategories: *)
(* one action per await, each with the outcomes of the awaited operation.  *)
(***************************************************************************)
\* mutant of InitCatch: the catch does not clear the loading flag
InitCatchKeepsLoading ==
  /\ pc' = "done"
  /\ outcome' = "openFailed"
  /\ UNCHANGED << table, instance, db, userData, menuItems, filteredMenuItems, loading,
                  categories, uiVars, menu, idx, inFlight, alerts, nFetch, nInsert, prev >>

\* the catch of initializeDatabase
InitCatch ==
  /\ loading' = FALSE
  /\ pc' = "done"
  /\ outcome' = "openFailed"
  /\ UNCHANGED << table, instance, db, userData, menuItems, filteredMenuItems,
                  categories, uiVars, menu, idx, inFlight, alerts, nFetch, nInsert, prev >>

\* SQLite.openDatabaseAsync returns
OpenReturn ==
  /\ pc = "open"
  /\ \/ /\ pc' = "schema"
        /\ UNCHANGED << table, instance, db, userData, menuItems, filteredMenuItems,
                        categories, uiVars, loading, bootVars, inFlight,
                        prev >>
     \/ InitCatch
  /\ UNCHANGED << profileVars, appVars >>

\* CREATE TABLE IF NOT EXISTS returns; on success setDb(database), loadMenuData issues
\* its GetAll, and the filter effect runs for the new db
SchemaReturn ==
  /\ pc = "schema"
  /\ \/ /\ db' = TRUE
        /\ pc' = "getAll1"
        /\ inFlight' = FilterEffect(TRUE, debouncedSearchText, selectedCategories, inFlight)
        /\ UNCHANGED << table, instance, userData, menuItems, filteredMenuItems,
                        categories, uiVars, loading, bootVars, prev >>
     \/ InitCatch
  /\ UNCHANGED << profileVars, appVars >>

\* mutant of FinishLoad: loadMenuData has no finally
FinishLoadKeepsLoading ==
  /\ UNCHANGED loading
  /\ pc' = "categories"

\* loadMenuData's finally, then initializeDatabase goes on to loadCategories
FinishLoad ==
  /\ loading' = FALSE
  /\ pc' = "categories"

\* mutant of GetAllReturn: the rows found are not looked at, the menu is fetched anyway
GetAllReturnAlwaysFetches ==
  /\ pc = "getAll1"
  /\ \/ /\ pc' = "fetch"
        /\ nFetch' = nFetch + 1
        /\ UNCHANGED << menuItems, filteredMenuItems, outcome, loading >>
     \/ /\ outcome' = "getAllFailed"
        /\ FinishLoad
        /\ UNCHANGED << menuItems, filteredMenuItems, nFetch >>
  /\ UNCHANGED << table, instance, db, userData, categories, uiVars, menu, idx,
                  inFlight, alerts, nInsert, prev >>
  /\ UNCHANGED << profileVars, appVars >>

\* mutant of GetAllReturn: the rows found are kept as menu items and not shown
GetAllReturnKeepsVisible ==
  /\ pc = "getAll1"
  /\ \/ LET result == getAllMenuItems(table) IN
          IF Len(result) > 0
          THEN /\ menuItems' = result
               /\ outcome' = "cached"
               /\ FinishLoad
               /\ UNCHANGED << nFetch, filteredMenuItems >>
          ELSE /\ pc' = "fetch"
               /\ nFetch' = nFetch + 1
               /\ UNCHANGED << menuItems, filteredMenuItems, outcome, loading >>
     \/ /\ outcome' = "getAllFailed"
        /\ FinishLoad
        /\ UNCHANGED << menuItems, filteredMenuItems, nFetch >>
  /\ UNCHANGED << table, instance, db, userData, categories, uiVars, menu, idx,
                  inFlight, alerts, nInsert, prev >>
  /\ UNCHANGED << profileVars, appVars >>

\* loadMenuData: getAllMenuItems returns
GetAllReturn ==
  /\ pc = "getAll1"
  /\ \/ LET result == getAllMenuItems(table) IN
          IF HasRows(result)
          THEN /\ menuItems' = result
               /\ filteredMenuItems' = result
               /\ outcome' = "cached"
               /\ FinishLoad
               /\ UNCHANGED << nFetch >>
          ELSE /\ pc' = "fetch"
               /\ nFetch' = nFetch + 1
               /\ UNCHANGED << menuItems, filteredMenuItems, outcome, loading >>
     \/ /\ outcome' = "getAllFailed"
        /\ FinishLoad
        /\ UNCHANGED << menuItems, filteredMenuItems, nFetch >>
  /\ UNCHANGED << table, instance, db, userData, categories, uiVars, menu, idx,
                  inFlight, alerts, nInsert, prev >>
  /\ UNCHANGED << profileVars, appVars >>

\* mutant of BootstrapCatch: the error is logged and no alert is shown
BootstrapCatchSilent(how) ==
  /\ outcome' = how
  /\ menu' = <<>>
  /\ idx' = 0
  /\ FinishLoad
  /\ UNCHANGED << table, instance, db, userData, menuItems, filteredMenuItems,
                  categories, uiVars, inFlight, alerts, nFetch, nInsert, prev >>

\* the catch of fetchAndStoreMenuData, then loadMenuData's finally
BootstrapCatch(how) ==
  /\ alerts' = alerts + 1
  /\ outcome' = how
  /\ menu' = <<>>
  /\ idx' = 0
  /\ FinishLoad
  /\ UNCHANGED << table, instance, db, userData, menuItems, filteredMenuItems,
                  categories, uiVars, inFlight, nFetch, nInsert, prev >>

\* fetch() returns
FetchReturn ==
  /\ pc = "fetch"
  /\ \/ /\ pc' = "json"
        /\ UNCHANGED << table, instance, db, userData, menuItems, filteredMenuItems,
                        categories, uiVars, loading, bootVars, inFlight,
                        prev >>
     \/ BootstrapCatch("fetchFailed")
  /\ UNCHANGED << profileVars, appVars >>

\* response.json() returns; a document with a menu array starts saveMenuItems
JsonReturn ==
  /\ pc = "json"
  /\ \/ \E data \in Docs :
          /\ IF IsMenuArray(data)
             THEN /\ menu' = data.menu
                  /\ idx' = IF data.menu = <<>> THEN 0 ELSE 1
                  /\ pc' = IF data.menu = <<>> THEN "getAll2" ELSE "insert"
                  /\ UNCHANGED << loading, outcome >>
             ELSE /\ outcome' = "noMenuArray"
                  /\ FinishLoad
                  /\ UNCHANGED << menu, idx >>
          /\ UNCHANGED << table, instance, db, userData, menuItems, filteredMenuItems,
                          categories, uiVars, inFlight, alerts, nFetch, nInsert, prev >>
     \/ BootstrapCatch("parseFailed")
  /\ UNCHANGED << profileVars, appVars >>

\* saveMenuItems: one runAsync INSERT returns
InsertReturn ==
  /\ pc = "insert"
  /\ \/ /\ table' = Append(table, InsertedRow(table, menu[idx]))
        /\ nInsert' = nInsert + 1
        /\ IF idx < Len(menu)
           THEN idx' = idx + 1 /\ pc' = "insert"
           ELSE idx' = 0 /\ pc' = "getAll2"
        /\ UNCHANGED << instance, db, userData, menuItems, filteredMenuItems, categories,
                        uiVars, loading, menu, inFlight, alerts, nFetch, outcome, prev >>
     \/ BootstrapCatch("insertFailed")
  /\ UNCHANGED << profileVars, appVars >>

\* fetchAndStoreMenuData: the re-read getAllMenuItems returns
RereadReturn ==
  /\ pc = "getAll2"
  /\ \/ /\ menuItems' = getAllMenuItems(table)
        /\ filteredMenuItems' = getAllMenuItems(table)
        /\ outcome' = "stored"
        /\ menu' = <<>>
        /\ FinishLoad
        /\ UNCHANGED << table, instance, db, userData, categories, uiVars, idx,
                        inFlight, alerts, nFetch, nInsert, prev >>
     \/ BootstrapCatch("rereadFailed")
  /\ UNCHANGED << profileVars, appVars >>

\* loadCategories: getCategories returns
CategoriesReturn ==
  /\ pc = "categories"
  /\ pc' = "done"
  /\ \/ categories' = getCategories(table)
     \/ UNCHANGED categories
  /\ UNCHANGED << table, instance, db, userData, menuItems, filteredMenuItems, uiVars,
                  loading, bootVars, inFlight, prev >>
  /\ UNCHANGED << profileVars, appVars >>

\* loadUserData: both items are read; with a stored user record the combined
\* data is set, without one nothing is.  Nothing writes the storage while a
\* HomeScreen mounts, the two reads are one step.
LoadUserData ==
  /\ pc # "unmounted"
  /\ userData = <<>>
  /\ storage.userData # <<>>
  /\ userData' = << CombinedData(storage.userData, storage.profileSettings) >>
  /\ UNCHANGED << table, instance, pc, db, menuItems, filteredMenuItems, categories,
                  uiVars, loading, bootVars, inFlight, prev >>
  /\ UNCHANGED << profileVars, appVars >>

(***************************************************************************)
(* The filter coordinator: the search field, useDebounce, the category     *)
(* buttons.  The field and the buttons are rendered once the loading gate  *)
(* `!userData || loading` is passed.                                       *)
(***************************************************************************)
ScreenShown == userData # <<>> /\ ~loading

\* mutant of clearTimeout: the effect has no cleanup
keepTimeout(timers) == timers

\* the cleanup of useDebounce's effect: clearTimeout(handler) on the timeout the
\* previous run of the effect had set, the latest one
clearTimeout(timers) ==
  IF timers = <<>> THEN <<>> ELSE SubSeq(timers, 1, Len(timers) - 1)

\* onChangeText: setSearchText(t); useDebounce's effect runs its cleanup and sets a
\* timeout for the new value
ChangeSearchText ==
  /\ ScreenShown
  /\ \E t \in SearchTexts :
       /\ t # searchText
       /\ searchText' = t
       /\ timer' = Append(clearTimeout(timer), t)
  /\ UNCHANGED << table, instance, pc, db, userData, menuItems, filteredMenuItems,
                  categories, selectedCategories, debouncedSearchText, loading,
                  bootVars, inFlight, prev >>
  /\ UNCHANGED << profileVars, appVars >>

\* a pending timeout fires: setDebouncedValue(value); a changed debounced text
\* re-runs the filter effect
TimerFire ==
  /\ \E i \in 1..Len(timer) : LET value == timer[i] IN
       /\ debouncedSearchText' = value
       /\ timer' = SubSeq(timer, 1, i - 1) \o SubSeq(timer, i + 1, Len(timer))
       /\ IF value # debouncedSearchText
          THEN /\ db => BagCardinality(inFlight) < MaxInFlight
               /\ inFlight' = FilterEffect(db, value, selectedCategories, inFlight)
          ELSE UNCHANGED inFlight
  /\ UNCHANGED << table, instance, pc, db, userData, menuItems, filteredMenuItems,
                  categories, selectedCategories, searchText, loading, bootVars, prev >>
  /\ UNCHANGED << profileVars, appVars >>

ToggleCategoryAlwaysAppends(selected, category) == Append(selected, category)

\* the updater of handleCategoryToggle
ToggleCategory(selected, category) ==
  IF category \in Range(selected)
  THEN LET Other(c) == c # category IN SelectSeq(selected, Other)
  ELSE Append(selected, category)

\* mutant of handleCategoryToggle: the query takes the raw text
handleCategoryToggleUsesRawText ==
  /\ ScreenShown
  /\ db => BagCardinality(inFlight) < MaxInFlight
  /\ \E category \in Range(categories) :
       /\ selectedCategories' = ToggleCategory(selectedCategories, category)
       /\ inFlight' = FilterEffect(db, searchText,
                                   ToggleCategory(selectedCategories, category), inFlight)
  /\ UNCHANGED << table, instance, pc, db, userData, menuItems, filteredMenuItems,
                  categories, searchText, debouncedSearchText, timer, loading, bootVars, prev >>
  /\ UNCHANGED << profileVars, appVars >>

\* a category button is pressed: handleCategoryToggle(category); the new array
\* re-runs the filter effect
handleCategoryToggle ==
  /\ ScreenShown
  /\ db => BagCardinality(inFlight) < MaxInFlight
  /\ \E category \in Range(categories) :
       /\ selectedCategories' = ToggleCategory(selectedCategories, category)
       /\ inFlight' = FilterEffect(db, debouncedSearchText,
                                   ToggleCategory(selectedCategories, category), inFlight)
  /\ UNCHANGED << table, instance, pc, db, userData, menuItems, filteredMenuItems,
                  categories, searchText, debouncedSearchText, timer, loading, bootVars, prev >>
  /\ UNCHANGED << profileVars, appVars >>

(***************************************************************************)
(* The app is closed and launched again (or the user logs out and passes   *)
(* onboarding again): a new HomeScreen instance mounts on the same         *)
(* database.  What the old instance still awaited has no effect on the new *)
(* one.                                                                    *)
(***************************************************************************)
InitializationFinished == pc \in {"categories", "done"}

\* a HomeScreen instance mounts: the useState initial values, and the mount effects
\* have run
MountHome ==
  /\ instance < MaxInstances
  /\ instance' = instance + 1
  /\ prev' = [outcome |-> outcome,
              rows |-> IF db /\ InitializationFinished THEN Len(table) ELSE -1]
  /\ pc' = "open"
  /\ db' = FALSE
  /\ userData' = <<>>
  /\ menuItems' = <<>>
  /\ filteredMenuItems' = <<>>
  /\ categories' = <<>>
  /\ selectedCategories' = <<>>
  /\ searchText' = <<>>
  /\ debouncedSearchText' = <<>>
  /\ timer' = << <<>> >>
  /\ loading' = TRUE
  /\ menu' = <<>>
  /\ idx' = 0
  /\ inFlight' = EmptyBag
  /\ alerts' = 0
  /\ nFetch' = 0
  /\ nInsert' = 0
  /\ outcome' = "none"
  /\ UNCHANGED table

Relaunch ==
  /\ MountHome
  /\ UNCHANGED << profileVars, appVars >>

Next ==
  \/ OpenReturn
  \/ SchemaReturn
  \/ GetAllReturn
  \/ FetchReturn
  \/ JsonReturn
  \/ InsertReturn
  \/ RereadReturn
  \/ CategoriesReturn
  \/ LoadUserData
  \/ FilterExec
  \/ FilterReturn
  \/ FilterFail
  \/ ChangeSearchText
  \/ TimerFire
  \/ handleCategoryToggle
  \/ Relaunch

Spec == Init /\ [][Next]_vars

\* the same screen when the user only types in the search field and no Filter query
\* is rejected
NextTyping ==
  \/ OpenReturn
  \/ SchemaReturn
  \/ GetAllReturn
  \/ FetchReturn
  \/ JsonReturn
  \/ InsertReturn
  \/ RereadReturn
  \/ CategoriesReturn
  \/ LoadUserData
  \/ FilterExec
  \/ FilterReturn
  \/ ChangeSearchText
  \/ TimerFire
  \/ Relaunch

SpecTyping == Init /\ [][NextTyping]_vars

\* the initialization on its own, over launches: every awaited storage or network
\* operation eventually returns or rejects
NextLoading ==
  \/ OpenReturn
  \/ SchemaReturn
  \/ GetAllReturn
  \/ FetchReturn
  \/ JsonReturn
  \/ InsertReturn
  \/ RereadReturn
  \/ CategoriesReturn
  \/ LoadUserData
  \/ Relaunch

AwaitsComplete ==
  /\ WF_vars(OpenReturn)
  /\ WF_vars(SchemaReturn)
  /\ WF_vars(GetAllReturn)
  /\ WF_vars(FetchReturn)
  /\ WF_vars(JsonReturn)
  /\ WF_vars(InsertReturn)
  /\ WF_vars(RereadReturn)
  /\ WF_vars(CategoriesReturn)
  /\ WF_vars(LoadUserData)

SpecLoading == Init /\ [][NextLoading]_vars /\ AwaitsComplete

(***************************************************************************)
(* The Filter query on its own: a settled screen over any store content    *)
(* within the bounds, at the moment the filter effect has issued the query *)
(* for any debounced text and any selection of the store's categories.     *)
(***************************************************************************)
Texts == UNION {[1..n -> Alphabet] : n \in 0..MaxTextLen}

StoredNames == {<<"S", "a">>, <<"A", "s">>, <<"_">>, <<"a", "%", "s">>}

MenuRow(i, name, category) ==
  [id |-> i, name |-> name, price |-> 5, description |-> "", image |-> "x.jpg",
   category |-> category]

Tables ==
  {<<>>}
  \cup {<<MenuRow(1, n, c)>> : n \in StoredNames, c \in {"Main", "Desserts"}}
  \cup {<<MenuRow(1, n, "Main"), MenuRow(2, m, c)>> :
          n \in StoredNames, m \in StoredNames, c \in {"Main", "Desserts"}}
  \cup {<<MenuRow(1, n, "Main"), MenuRow(2, m, "Main"), MenuRow(3, k, "Desserts")>> :
          n \in StoredNames, m \in StoredNames, k \in StoredNames}

\* the arrays the category buttons can leave selected
Selections(cats) ==
  {<<>>} \cup {<<c>> : c \in Range(cats)}
         \cup {q \in Range(cats) \X Range(cats) : q[1] # q[2]}

InitFilter ==
  /\ table \in Tables
  /\ debouncedSearchText \in Texts
  /\ selectedCategories \in Selections(getCategories(table))
  /\ searchText = debouncedSearchText
  /\ inFlight = handleFilter(TRUE, debouncedSearchText, selectedCategories, EmptyBag)
  /\ menuItems = getAllMenuItems(table)
  /\ filteredMenuItems = getAllMenuItems(table)
  /\ categories = getCategories(table)
  /\ instance = 1
  /\ prev = NoPrev
  /\ pc = "done"
  /\ db = TRUE
  /\ userData = << CombinedData(<<OnboardedUser>>, <<>>) >>
  /\ timer = <<>>
  /\ loading = FALSE
  /\ menu = <<>>
  /\ idx = 0
  /\ alerts = 0
  /\ nFetch = 0
  /\ nInsert = 0
  /\ outcome = "cached"
  /\ ProfileMounted(OnboardedUser)
  /\ AppAtHome

NextFilter == FilterReturn

SpecFilter == InitFilter /\ [][NextFilter]_vars

(***************************************************************************)
(* The category buttons on their own: a settled screen whose instance has  *)
(* stored the remote menu, no category selected, the last Filter query     *)
(* returned; from there categories are toggled and queries return.         *)
(***************************************************************************)
\* the table after saveMenuItems(RemoteMenu) on the empty store
StoredMenu ==
  LET first == InsertedRow(<<>>, RemoteMenu[1])
  IN << first, InsertedRow(<<first>>, RemoteMenu[2]) >>

InitToggle ==
  /\ table = StoredMenu
  /\ debouncedSearchText \in SearchTexts
  /\ searchText = debouncedSearchText
  /\ selectedCategories = <<>>
  /\ inFlight = EmptyBag
  /\ menuItems = getAllMenuItems(table)
  /\ filteredMenuItems = filterBySearchAndCategories(table, debouncedSearchText, <<>>)
  /\ categories = getCategories(table)
  /\ instance = 1
  /\ prev = NoPrev
  /\ pc = "done"
  /\ db = TRUE
  /\ userData = << CombinedData(<<OnboardedUser>>, <<>>) >>
  /\ timer = <<>>
  /\ loading = FALSE
  /\ menu = <<>>
  /\ idx = 0
  /\ alerts = 0
  /\ nFetch = 1
  /\ nInsert = Len(RemoteMenu)
  /\ outcome = "stored"
  /\ ProfileMounted(OnboardedUser)
  /\ AppAtHome

NextToggle ==
  \/ handleCategoryToggle
  \/ FilterReturn

SpecToggle == InitToggle /\ [][NextToggle]_vars

\* the filter coordinator of a settled screen: the search field and the category
\* buttons are shown once loading has ended, so typing, the debounce timer and the
\* toggles all act after the initialization
NextCoordinator ==
  \/ ChangeSearchText
  \/ TimerFire
  \/ handleCategoryToggle
  \/ FilterReturn
  \/ FilterFail

SpecCoordinator == InitToggle /\ [][NextCoordinator]_vars

(***************************************************************************)
(* The profile editor: loadProfileData, the text fields, saveChanges.      *)
(***************************************************************************)
\* the Profile screen is mounted while the navigator shows the main flow
ProfileShown == isOnboardingCompleted

\* a saveChanges call at its first await, setItem('userData', ..): the data it
\* writes, and whether the setItem was issued while a logout's multiRemove is
\* pending.  AsyncStorage runs a setItem issued behind a pending multiRemove after it.
SaveCall(data) == [key |-> "userData", data |-> data, behind |-> logoutPc # "idle"]

\* loadProfileData: AsyncStorage.getItem('userData') returns, or rejects and the
\* catch logs the error
LoadGetUserData ==
  /\ loadPc = "userData"
  /\ \/ /\ loadedUserData' = storage.userData
        /\ loadPc' = "profileSettings"
     \/ /\ loadPc' = "failed"
        /\ UNCHANGED loadedUserData
  /\ UNCHANGED << storage, profileData, phoneInput, hasChanges, saves, profileAlert >>
  /\ UNCHANGED << homeVars, appVars >>

\* loadProfileData: AsyncStorage.getItem('profileSettings') returns and the two
\* items read are merged into profileData, or it rejects
LoadGetSettings ==
  /\ loadPc = "profileSettings"
  /\ loadedUserData' = <<>>
  /\ \/ /\ profileData' = WithSettings(WithUserData(profileData, loadedUserData),
                                       storage.profileSettings)
        /\ loadPc' = "done"
     \/ /\ loadPc' = "failed"
        /\ UNCHANGED profileData
  /\ UNCHANGED << storage, phoneInput, hasChanges, saves, profileAlert >>
  /\ UNCHANGED << homeVars, appVars >>

\* onChangeText of a text field calls handleInputChange(field, text)
handleInputChange(field, value) ==
  /\ ProfileShown
  /\ profileData' = [profileData EXCEPT
                       ![field] = IF field = "phoneNumber" THEN formatPhoneNumber(value)
                                  ELSE value]
  /\ phoneInput' = IF field = "phoneNumber" THEN value ELSE phoneInput
  /\ hasChanges' = TRUE
  /\ UNCHANGED << storage, loadPc, loadedUserData, saves, profileAlert >>
  /\ UNCHANGED << homeVars, appVars >>

\* the texts entered into the fields
SixDigits == <<"5", "5", "5", "1", "2", "3">>
TenDigits == <<"5", "5", "5", "1", "2", "3", "4", "5", "6", "7">>

FieldInputs ==
  [firstName |-> {<<" ">>, <<"J">>},
   lastName |-> {<<"D">>},
   email |-> {<<" ">>, <<"a", "@", "b">>, <<"a", "@", "b", ".", "c">>},
   phoneNumber |-> {<<>>, SixDigits, TenDigits}]

\* a field's text is replaced by another one
EditField ==
  \E field \in DOMAIN FieldInputs : \E value \in FieldInputs[field] :
    /\ value # profileData[field]
    /\ handleInputChange(field, value)

\* mutant of saveChanges: the phone number is not validated
saveChangesSkipsPhoneCheck ==
  /\ ProfileShown
  /\ hasChanges
  /\ IF IsBlank(profileData.firstName) \/ IsBlank(profileData.email)
     THEN profileAlert' = "required" /\ UNCHANGED saves
     ELSE IF ~emailRegexTest(profileData.email)
     THEN profileAlert' = "email" /\ UNCHANGED saves
     ELSE /\ BagCardinality(saves) < MaxSaves
          /\ saves' = saves (+) SetToBag({SaveCall(profileData)})
          /\ UNCHANGED profileAlert
  /\ UNCHANGED << storage, profileData, phoneInput, hasChanges, loadPc, loadedUserData >>
  /\ UNCHANGED << homeVars, appVars >>

\* the Save button (enabled while hasChanges) is pressed: saveChanges up to its
\* first await
saveChanges ==
  /\ ProfileShown
  /\ hasChanges
  /\ IF IsBlank(profileData.firstName) \/ IsBlank(profileData.email)
     THEN profileAlert' = "required" /\ UNCHANGED saves
     ELSE IF ~emailRegexTest(profileData.email)
     THEN profileAlert' = "email" /\ UNCHANGED saves
     ELSE IF profileData.phoneNumber # <<>> /\ ~isValidPhoneNumber(profileData.phoneNumber)
     THEN profileAlert' = "phone" /\ UNCHANGED saves
     ELSE /\ BagCardinality(saves) < MaxSaves
          /\ saves' = saves (+) SetToBag({SaveCall(profileData)})
          /\ UNCHANGED profileAlert
  /\ UNCHANGED << storage, profileData, phoneInput, hasChanges, loadPc, loadedUserData >>
  /\ UNCHANGED << homeVars, appVars >>

\* the catch of saveChanges
SaveCatch(save) ==
  /\ saves' = saves (-) SetToBag({save})
  /\ profileAlert' = "failed"
  /\ UNCHANGED << storage, hasChanges >>

\* saveChanges: AsyncStorage.setItem('userData', ..) returns
SetUserDataReturn ==
  /\ \E save \in BagToSet(saves) :
       /\ save.key = "userData"
       /\ ~save.behind
       /\ \/ /\ storage' = [storage EXCEPT !.userData = << UserDataJson(save.data) >>]
             /\ saves' = (saves (-) SetToBag({save}))
                           (+) SetToBag({[save EXCEPT !.key = "profileSettings",
                                                      !.behind = logoutPc # "idle"]})
             /\ UNCHANGED << hasChanges, profileAlert >>
          \/ SaveCatch(save)
  /\ UNCHANGED << profileData, phoneInput, loadPc, loadedUserData >>
  /\ UNCHANGED << homeVars, appVars >>

\* saveChanges: AsyncStorage.setItem('profileSettings', ..) returns
SetSettingsReturn ==
  /\ \E save \in BagToSet(saves) :
       /\ save.key = "profileSettings"
       /\ ~save.behind
       /\ \/ /\ storage' = [storage EXCEPT
                              !.profileSettings = << SettingsJson(save.data) >>]
             /\ saves' = saves (-) SetToBag({save})
             /\ hasChanges' = FALSE
             /\ profileAlert' = "saved"
          \/ SaveCatch(save)
  /\ UNCHANGED << profileData, phoneInput, loadPc, loadedUserData >>
  /\ UNCHANGED << homeVars, appVars >>

\* the user opens the profile editor from the settled home screen
InitProfile ==
  /\ InitToggle
  /\ debouncedSearchText = <<>>

NextProfile ==
  \/ LoadGetUserData
  \/ LoadGetSettings
  \/ EditField
  \/ saveChanges
  \/ SetUserDataReturn
  \/ SetSettingsReturn

SpecProfile == InitProfile /\ [][NextProfile]_vars

(***************************************************************************)
(* The phone field: keys are typed at the end of the field's text, its     *)
(* last character is erased, or a text is pasted over it, and Save is      *)
(* pressed; the writes Save awaits are still pending.                      *)
(***************************************************************************)
PhoneKeys == {"5", "-"}

PastedDigits == <<"5", "5", "5", "1", "2", "3", "4", "5", "6", "7", "8">>

PastedTexts == {SubSeq(PastedDigits, 1, n) : n \in 0..Len(PastedDigits)}

TypePhoneKey ==
  \E key \in PhoneKeys :
    /\ key \in PhoneKeys
    /\ handleInputChange("phoneNumber", Append(profileData.phoneNumber, key))

ErasePhoneKey ==
  /\ profileData.phoneNumber # <<>>
  /\ handleInputChange("phoneNumber",
                       SubSeq(profileData.phoneNumber, 1, Len(profileData.phoneNumber) - 1))

PastePhone ==
  \E value \in PastedTexts :
    /\ value # profileData.phoneNumber
    /\ handleInputChange("phoneNumber", value)

NextPhone ==
  \/ LoadGetUserData
  \/ LoadGetSettings
  \/ TypePhoneKey
  \/ ErasePhoneKey
  \/ PastePhone
  \/ saveChanges

SpecPhone == InitProfile /\ [][NextPhone]_vars

(***************************************************************************)
(* The editor's notification switches and its Discard button.              *)
(***************************************************************************)
\* the switches pressed
NotificationTypes == {"newsletter"}

\* a notification switch is pressed: handleNotificationChange(type)
handleNotificationChange ==
  /\ ProfileShown
  /\ \E type \in NotificationTypes :
       profileData' = [profileData EXCEPT
                         !.notifications[type] = ~profileData.notifications[type]]
  /\ hasChanges' = TRUE
  /\ UNCHANGED << storage, phoneInput, loadPc, loadedUserData, saves, profileAlert >>
  /\ UNCHANGED << homeVars, appVars >>

\* the Discard button (enabled while hasChanges) is pressed and Discard is
\* confirmed in the alert: loadProfileData() is called, up to its first await, and
\* setHasChanges(false).  One loadProfileData runs at a time.
discardChanges ==
  /\ ProfileShown
  /\ hasChanges
  /\ loadPc \in {"done", "failed"}
  /\ loadPc' = "userData"
  /\ hasChanges' = FALSE
  /\ profileAlert' = "discard"
  /\ UNCHANGED << storage, profileData, phoneInput, loadedUserData, saves >>
  /\ UNCHANGED << homeVars, appVars >>

\* the phone field's text is replaced by another one
EditPhone ==
  \E value \in FieldInputs.phoneNumber :
    /\ value # profileData.phoneNumber
    /\ handleInputChange("phoneNumber", value)

\* the first name is replaced by another one
EditFirstName ==
  \E value \in FieldInputs.firstName :
    /\ value # profileData.firstName
    /\ handleInputChange("firstName", value)

NextDiscard ==
  \/ LoadGetUserData
  \/ LoadGetSettings
  \/ EditPhone
  \/ EditFirstName
  \/ handleNotificationChange
  \/ saveChanges
  \/ SetUserDataReturn
  \/ SetSettingsReturn
  \/ discardChanges

SpecDiscard == InitProfile /\ [][NextDiscard]_vars

(***************************************************************************)
(* The app (App): checkOnboardingStatus at launch, the onboarding flow and *)
(* handleOnboardingComplete, the navigator that mounts the home screen and *)
(* the profile editor.                                                     *)
(***************************************************************************)
\* no HomeScreen is mounted: the navigator shows the splash or the onboarding flow
HomeUnmounted ==
  /\ pc = "unmounted"
  /\ db = FALSE
  /\ userData = <<>>
  /\ menuItems = <<>>
  /\ filteredMenuItems = <<>>
  /\ categories = <<>>
  /\ selectedCategories = <<>>
  /\ searchText = <<>>
  /\ debouncedSearchText = <<>>
  /\ timer = <<>>
  /\ loading = TRUE
  /\ menu = <<>>
  /\ idx = 0
  /\ inFlight = EmptyBag
  /\ alerts = 0
  /\ nFetch = 0
  /\ nInsert = 0
  /\ outcome = "none"
  /\ prev = NoPrev

\* no Profile is mounted
ProfileUnmounted ==
  /\ profileData = DefaultProfile
  /\ phoneInput = <<>>
  /\ hasChanges = FALSE
  /\ loadPc = "unmounted"
  /\ loadedUserData = <<>>
  /\ saves = EmptyBag
  /\ profileAlert = "none"

\* a profile the editor saved: the onboarded user with a phone number and one
\* notification switched off
SavedProfile ==
  [DefaultProfile EXCEPT !.firstName = OnboardedUser.firstName,
                         !.lastName = OnboardedUser.lastName,
                         !.email = OnboardedUser.email,
                         !.phoneNumber = formatPhoneNumber(TenDigits),
                         !.notifications.newsletter = FALSE]

\* what earlier runs of the app leave in AsyncStorage: nothing (first launch, or
\* after a logout), the records of a completed onboarding, and those with the
\* records a saveChanges wrote
PersistedStates ==
  { [onboardingCompleted |-> <<>>, userData |-> <<>>, profileSettings |-> <<>>],
    [onboardingCompleted |-> <<"true">>, userData |-> << OnboardedUser >>,
     profileSettings |-> <<>>],
    [onboardingCompleted |-> <<"true">>, userData |-> << UserDataJson(SavedProfile) >>,
     profileSettings |-> << SettingsJson(SavedProfile) >>] }

\* the app is launched: App's useState initial values, the mount effect has called
\* checkOnboardingStatus.  The menu table is empty on a first launch and holds the
\* stored menu after a completed onboarding.
InitApp ==
  /\ storage \in PersistedStates
  /\ isOnboardingCompleted = FALSE
  /\ appPc = "check"
  /\ userInfo = <<>>
  /\ logoutPc = "idle"
  /\ instance = 0
  /\ table = IF storage.onboardingCompleted = <<>> THEN <<>> ELSE StoredMenu
  /\ HomeUnmounted
  /\ ProfileUnmounted

\* checkOnboardingStatus: getItem('onboardingCompleted') returns 'true' and the
\* navigator mounts the home screen; or it returns anything else, or rejects, and
\* the navigator shows the onboarding flow
CheckReturn ==
  /\ appPc = "check"
  /\ appPc' = "idle"
  /\ \/ /\ storage.onboardingCompleted = <<"true">>
        /\ isOnboardingCompleted' = TRUE
        /\ MountHome
     \/ /\ UNCHANGED isOnboardingCompleted
        /\ UNCHANGED homeVars
  /\ UNCHANGED << userInfo, logoutPc, profileVars >>

\* the records the onboarding flow passes to onComplete: isStepValid has passed on
\* the name and the email steps
OnboardingInfos ==
  { OnboardedUser, [OnboardedUser EXCEPT !.email = <<"a", "@", "b">>] }

\* the onboarding flow calls onComplete(userData): handleOnboardingComplete up to
\* its first await
CompleteOnboarding ==
  /\ ~isOnboardingCompleted
  /\ appPc = "idle"
  /\ \E info \in OnboardingInfos : userInfo' = << info >>
  /\ appPc' = "setOnboarding"
  /\ UNCHANGED << isOnboardingCompleted, logoutPc, profileVars, homeVars >>

\* handleOnboardingComplete: setItem('onboardingCompleted', 'true') returns, or
\* rejects and the catch shows the error alert
SetOnboardingReturn ==
  /\ appPc = "setOnboarding"
  /\ \/ /\ storage' = [storage EXCEPT !.onboardingCompleted = <<"true">>]
        /\ appPc' = "setUserData"
        /\ UNCHANGED userInfo
     \/ /\ appPc' = "idle"
        /\ userInfo' = <<>>
        /\ UNCHANGED storage
  /\ UNCHANGED << isOnboardingCompleted, logoutPc, profileData, phoneInput, hasChanges,
                  loadPc, loadedUserData, saves, profileAlert, homeVars >>

\* handleOnboardingComplete: setItem('userData', ..) returns and the navigator
\* mounts the home screen, or it rejects and the catch shows the error alert
SetOnboardedUserReturn ==
  /\ appPc = "setUserData"
  /\ appPc' = "idle"
  /\ userInfo' = <<>>
  /\ \/ /\ storage' = [storage EXCEPT !.userData = userInfo]
        /\ isOnboardingCompleted' = TRUE
        /\ MountHome
     \/ UNCHANGED << storage, isOnboardingCompleted, homeVars >>
  /\ UNCHANGED << logoutPc, profileData, phoneInput, hasChanges, loadPc, loadedUserData,
                  saves, profileAlert >>

\* the avatar of the home screen's header is pressed: the navigator mounts the
\* Profile, whose mount effect calls loadProfileData
OpenProfile ==
  /\ isOnboardingCompleted
  /\ ScreenShown
  /\ loadPc = "unmounted"
  /\ loadPc' = "userData"
  /\ UNCHANGED << storage, profileData, phoneInput, hasChanges, loadedUserData, saves,
                  profileAlert >>
  /\ UNCHANGED << homeVars, appVars >>

\* the navigator unmounts the HomeScreen: what it still awaited has no effect
UnmountHome ==
  /\ pc' = "unmounted"
  /\ db' = FALSE
  /\ userData' = <<>>
  /\ menuItems' = <<>>
  /\ filteredMenuItems' = <<>>
  /\ categories' = <<>>
  /\ selectedCategories' = <<>>
  /\ searchText' = <<>>
  /\ debouncedSearchText' = <<>>
  /\ timer' = <<>>
  /\ loading' = TRUE
  /\ menu' = <<>>
  /\ idx' = 0
  /\ inFlight' = EmptyBag
  /\ alerts' = 0
  /\ nFetch' = 0
  /\ nInsert' = 0
  /\ outcome' = "none"
  /\ prev' = NoPrev
  /\ UNCHANGED << table, instance >>

\* the navigator unmounts the Profile
UnmountProfile ==
  /\ profileData' = DefaultProfile
  /\ phoneInput' = <<>>
  /\ hasChanges' = FALSE
  /\ loadPc' = "unmounted"
  /\ loadedUserData' = <<>>
  /\ profileAlert' = "none"

\* the app is closed and launched again: every component is gone, AsyncStorage and
\* the menu table stay
AppRelaunch ==
  /\ instance < MaxInstances
  /\ appPc # "check"
  /\ isOnboardingCompleted' = FALSE
  /\ appPc' = "check"
  /\ userInfo' = <<>>
  /\ logoutPc' = "idle"
  /\ UnmountHome
  /\ UnmountProfile
  /\ saves' = EmptyBag
  /\ UNCHANGED storage

NextApp ==
  \/ CheckReturn
  \/ CompleteOnboarding
  \/ SetOnboardingReturn
  \/ SetOnboardedUserReturn
  \/ OpenReturn
  \/ SchemaReturn
  \/ GetAllReturn
  \/ FetchReturn
  \/ JsonReturn
  \/ InsertReturn
  \/ RereadReturn
  \/ CategoriesReturn
  \/ LoadUserData
  \/ OpenProfile
  \/ LoadGetUserData
  \/ LoadGetSettings
  \/ AppRelaunch

SpecApp == InitApp /\ [][NextApp]_vars

(***************************************************************************)
(* Logout: Profile.handleLogout removes the three keys and calls onLogout, *)
(* App.handleLogout, which removes them again and switches the navigator   *)
(* to the onboarding flow.  A multiRemove is run after the setItems issued *)
(* before it and before the setItems issued behind it.                     *)
(***************************************************************************)
NoItems == [onboardingCompleted |-> <<>>, userData |-> <<>>, profileSettings |-> <<>>]

\* the pending multiRemove is next in AsyncStorage's order
RemoveIsNext == \A save \in BagToSet(saves) : save.behind

\* the pending multiRemove has run: the setItems behind it are next
AfterRemove(calls) ==
  [call \in {[save EXCEPT !.behind = FALSE] : save \in BagToSet(calls)} |->
     calls[[call EXCEPT !.behind = TRUE]]]

\* the Log Out button is pressed and Log Out is confirmed in the alert: the
\* handler up to its await
ConfirmLogout ==
  /\ ProfileShown
  /\ loadPc # "unmounted"
  /\ logoutPc = "idle"
  /\ logoutPc' = "profileRemove"
  /\ UNCHANGED << isOnboardingCompleted, appPc, userInfo, profileVars, homeVars >>

\* Profile.handleLogout: multiRemove returns and onLogout() runs App.handleLogout
\* up to its await, or it rejects and the catch logs the error
ProfileRemoveReturn ==
  /\ logoutPc = "profileRemove"
  /\ RemoveIsNext
  /\ saves' = AfterRemove(saves)
  /\ \/ /\ storage' = NoItems
        /\ logoutPc' = "appRemove"
     \/ /\ logoutPc' = "idle"
        /\ UNCHANGED storage
  /\ UNCHANGED << isOnboardingCompleted, appPc, userInfo, profileData, phoneInput,
                  hasChanges, loadPc, loadedUserData, profileAlert, homeVars >>

\* App.handleLogout: multiRemove returns and setIsOnboardingCompleted(false)
\* unmounts the main flow, or it rejects and the catch logs the error
AppRemoveReturn ==
  /\ logoutPc = "appRemove"
  /\ RemoveIsNext
  /\ saves' = AfterRemove(saves)
  /\ logoutPc' = "idle"
  /\ \/ /\ storage' = NoItems
        /\ isOnboardingCompleted' = FALSE
        /\ UnmountHome
        /\ UnmountProfile
     \/ UNCHANGED << storage, isOnboardingCompleted, profileData, phoneInput, hasChanges,
                     loadPc, loadedUserData, profileAlert, homeVars >>
  /\ UNCHANGED << appPc, userInfo >>

NextLogout ==
  \/ LoadGetUserData
  \/ LoadGetSettings
  \/ EditPhone
  \/ handleNotificationChange
  \/ saveChanges
  \/ SetUserDataReturn
  \/ SetSettingsReturn
  \/ ConfirmLogout
  \/ ProfileRemoveReturn
  \/ AppRemoveReturn

SpecLogout == InitProfile /\ [][NextLogout]_vars

(***************************************************************************)
(* Claims.                                                                 *)
(***************************************************************************)
\* loadMenuData has finished on an opened database: open, ensure-schema and
\* populate-if-empty are all behind
PopulationFinished == db /\ InitializationFinished

\* C1: no Filter query is issued before the instance's initialization (open,
\* ensure-schema, populate-if-empty with every insert and the re-read) has finished.
C1_FilterOnlyAfterInitialization ==
  [][BagCardinality(inFlight') > BagCardinality(inFlight) => PopulationFinished]_vars

\* C2: at most one Filter query of the instance is in flight at any time.
C2_OneFilterInFlight == BagCardinality(inFlight) <= 1

\* nothing is pending: initialization is over, no debounce timer is set, every
\* issued Filter query has returned
Settled == pc = "done" /\ timer = <<>> /\ inFlight = EmptyBag

\* C3: once the inputs have stopped changing and every issued Filter query has
\* completed, the visible items are the Filter of the store for the latest debounced
\* text and selected categories.  Stated for an instance that found the store
\* already populated, and checked where no query is rejected, so that only the
\* order in which the queries return is left to decide it.
C3_SettledShowsLatestFilter ==
  (Settled /\ outcome = "cached") =>
    /\ debouncedSearchText = searchText
    /\ filteredMenuItems =
         filterBySearchAndCategories(table, debouncedSearchText, selectedCategories)

\* the rows of the table that carry a name
CountRows(name) == Cardinality({i \in 1..Len(table) : table[i].name = name})

\* this instance was mounted after an earlier one had finished its initialization
SecondRunFinished == instance > 1 /\ prev.rows >= 0 /\ PopulationFinished

\* C4 as stated: a second initialization, started after the first has completed,
\* leaves the row count as the first left it, fetches nothing and inserts no row.
C4_SecondRunChangesNothing ==
  SecondRunFinished => Len(table) = prev.rows /\ nFetch = 0 /\ nInsert = 0

\* C4 amended: the same, when the first initialization left the store non-empty.
C4_SecondRunOnPopulatedStore ==
  (SecondRunFinished /\ prev.rows > 0) =>
    Len(table) = prev.rows /\ nFetch = 0 /\ nInsert = 0

C4_Witness ==
  SecondRunFinished /\ prev.rows > 0 /\ pc = "done" /\ outcome = "cached"

C6_FetchOnlyWhenEmpty ==
  [][ /\ nFetch' > nFetch =>
           pc = "getAll1" /\ getAllMenuItems(table) = <<>> /\ nFetch = 0
      /\ (pc = "getAll1" /\ outcome' = "cached") =>
           /\ getAllMenuItems(table) # <<>>
           /\ menuItems' = getAllMenuItems(table)
           /\ filteredMenuItems' = getAllMenuItems(table)
           /\ table' = table
      /\ outcome' = "cached" => nFetch' = 0 /\ nInsert' = 0 ]_vars

C6_Witness ==
  /\ outcome = "cached" /\ pc = "categories"
  /\ menuItems # <<>> /\ menuItems = getAllMenuItems(table)
  /\ filteredMenuItems = menuItems

\* C7: a failed fetch or a failed parse inserts no row, shows an alert, lets the
\* initialization go on to its end, and is followed by no other fetch in the
\* instance; the next instance finds the store empty and fetches again.
C7_FetchFailureLeavesStoreEmpty ==
  [][ /\ outcome' \in {"fetchFailed", "parseFailed"} =>
           /\ table' = <<>> /\ nInsert' = 0
           /\ alerts' = 1
           /\ nFetch' = 1
           /\ ~loading' /\ db' /\ pc' \in {"categories", "done"}
      /\ (prev.outcome \in {"fetchFailed", "parseFailed"} /\ pc = "getAll1"
            /\ instance' = instance /\ pc' # "getAll1" /\ outcome' = "none") =>
           table = <<>> /\ pc' = "fetch" /\ nFetch' = 1 ]_vars

\* after a failed fetch or parse, the next instance has fetched again
C7_Witness ==
  /\ instance > 1 /\ prev.outcome \in {"fetchFailed", "parseFailed"}
  /\ nFetch = 1 /\ pc = "fetch"

\* C8: a fetched document without a `menu` array inserts no row, and the failure is
\* shown to the user as an error.
C8_MissingMenuIsSurfaced ==
  outcome = "noMenuArray" => nInsert = 0 /\ alerts >= 1

\* search texts that are empty or only whitespace
BlankTexts == {<<>>, <<" ">>, <<" ", " ">>}

\* C9: Filter with no category and a blank search text returns the rows of GetAll in
\* GetAll's order; and a screen whose search field is empty again after any typing
\* shows, once settled, what it shows when nothing was typed (here: the rows of
\* GetAll, as no category is ever selected and no query is rejected).
C9_BlankFilterIsGetAll ==
  /\ \A t \in BlankTexts :
       filterBySearchAndCategories(table, t, <<>>) = getAllMenuItems(table)
  /\ (Settled /\ outcome = "cached" /\ searchText = <<>> /\ selectedCategories = <<>>) =>
       filteredMenuItems = getAllMenuItems(table)

LowerText(s) == [i \in 1..Len(s) |-> Lower(s[i])]

\* needle is a contiguous run of hay
Contains(hay, needle) ==
  \E k \in 0..(Len(hay) - Len(needle)) : SubSeq(hay, k + 1, k + Len(needle)) = needle

\* the rows the claim has Filter(s, C) return
MatchingRows(rows, s, C) ==
  {r \in Range(rows) :
     /\ Trim(s) # <<>> => Contains(LowerText(r.name), LowerText(Trim(s)))
     /\ C # <<>> => r.category \in Range(C)}

\* C10: Filter(s, C) returns exactly the rows whose name contains trim(s) as a
\* substring, compared without case, when trim(s) is non-empty, and whose category
\* is in C when C is non-empty; `%` and `_` in s are matched literally.
C10_FilterReturnsMatchingRows ==
  inFlight = EmptyBag =>
    Range(filteredMenuItems) = MatchingRows(table, debouncedSearchText, selectedCategories)


\* the result is in ascending name order: no row's name sorts before the name
\* of a row that precedes it
IsSortedByName(rs) ==
  \A i \in 1..Len(rs) : \A j \in i..Len(rs) : ~NameLess(rs[j].name, rs[i].name)

Names(rs) == [i \in 1..Len(rs) |-> rs[i].name]

\* the same rows inserted in the opposite order
Reinserted(t) == [i \in 1..Len(t) |-> [t[Len(t) + 1 - i] EXCEPT !.id = i]]

\* C11: the result of GetAll and of every Filter(s, C) is sorted by name
\* ascending, and a store holding the same rows inserted in the opposite order
\* returns them in the same name order.
C11_ResultsSortedByName ==
  /\ IsSortedByName(menuItems)
  /\ IsSortedByName(filteredMenuItems)
  /\ Names(getAllMenuItems(Reinserted(table))) = Names(menuItems)
  /\ inFlight = EmptyBag =>
       Names(filterBySearchAndCategories(Reinserted(table), debouncedSearchText,
                                         selectedCategories))
         = Names(filteredMenuItems)

\* a Filter query with a text condition has returned two or more rows in an
\* order other than their insertion order
C11_Witness ==
  /\ inFlight = EmptyBag
  /\ HasTextConstraint(debouncedSearchText)
  /\ Len(filteredMenuItems) >= 2
  /\ filteredMenuItems[1].id > filteredMenuItems[2].id
  /\ filteredMenuItems[1].name # filteredMenuItems[2].name

\* C12: handleCategoryToggle(c) removes c from the selected categories when it
\* is selected and adds it otherwise, leaving every other selected category as it
\* was; no category is ever selected twice, several categories can be selected at
\* once, and toggling the same category twice in a row restores the selected set.
C12_ToggleAddsOrRemoves ==
  /\ Cardinality(Range(selectedCategories)) = Len(selectedCategories)
  /\ \A c \in Range(categories) :
       LET toggled == ToggleCategory(selectedCategories, c) IN
         /\ Range(toggled) = IF c \in Range(selectedCategories)
                             THEN Range(selectedCategories) \ {c}
                             ELSE Range(selectedCategories) \cup {c}
         /\ Cardinality(Range(toggled)) = Len(toggled)
         /\ Range(ToggleCategory(toggled, c)) = Range(selectedCategories)

\* two categories are selected at once and the filter effect has issued the query
\* for them
C12_Witness ==
  /\ Len(selectedCategories) = 2
  /\ \E q \in BagToSet(inFlight) : q.cats = selectedCategories

\* C13: from a settled screen with no category selected, toggling a category on
\* and off again leaves no category selected and, once every issued Filter query
\* has returned, the visible items are what they were before the toggles: the
\* rows matching the debounced text in any category.
C13_ToggleOnOffRestoresVisible ==
  (selectedCategories = <<>> /\ inFlight = EmptyBag) =>
    filteredMenuItems = filterBySearchAndCategories(table, debouncedSearchText, <<>>)

\* C14: the debounced text changes only when a debounce timer fires, and then
\* takes the raw text's value of that moment; every change of the raw text cancels
\* the pending timer and schedules one for the new value, so at most one timer is
\* pending at a time, and only debounced values reach a Filter query.
C14_DebounceTakesLatestText ==
  [][instance' = instance =>
       /\ Len(timer') <= 1
       /\ debouncedSearchText' # debouncedSearchText =>
            /\ Len(timer') < Len(timer)
            /\ searchText' = searchText
            /\ debouncedSearchText' = searchText
       /\ searchText' # searchText =>
            /\ timer' = << searchText' >>
            /\ debouncedSearchText' = debouncedSearchText
       /\ \A q \in BagToSet(inFlight') :
            (q.snap = -1 /\ CopiesIn(q, inFlight') > CopiesIn(q, inFlight)) =>
              q.text = debouncedSearchText']_vars

\* the debounced text is "s", the raw text went to "" and back to "s" before a
\* timer fired: the timer for "" was cancelled, one for "s" is pending
C14_Witness ==
  /\ debouncedSearchText = <<"s">>
  /\ searchText = <<"s">>
  /\ timer = << <<"s">> >>

\* C15: toggling a category leaves the pending debounce timer, the raw text and
\* the debounced text as they were, and at once issues a Filter query with the new
\* selected categories and the debounced text.
C15_ToggleKeepsDebounce ==
  [][(instance' = instance /\ selectedCategories' # selectedCategories) =>
       /\ timer' = timer
       /\ searchText' = searchText
       /\ debouncedSearchText' = debouncedSearchText
       /\ inFlight' = inFlight (+) SetToBag({Query(debouncedSearchText,
                                                  selectedCategories')})]_vars

\* a timer for a raw text that is not yet the debounced text is pending, and the
\* query for the selected categories and the debounced text is awaited
C15_Witness ==
  /\ timer # <<>>
  /\ searchText # debouncedSearchText
  /\ selectedCategories # <<>>
  /\ Query(debouncedSearchText, selectedCategories) \in BagToSet(inFlight)

\* the awaited Filter query of an instance whose user record is not yet loaded is
\* the mount-time one, issued when the visible items were still the empty list;
\* this step ends it without applying its result: it was rejected
MountQueryRejected ==
  /\ instance' = instance
  /\ userData = <<>>
  /\ inFlight # EmptyBag
  /\ inFlight' = EmptyBag
  /\ \A q \in BagToSet(inFlight) : filteredMenuItems' # QueryResult(q)

\* C16: when a Filter query fails, the visible items keep exactly the value they
\* had before the query was issued.  Stated for the mount-time query, before whose
\* issue the visible items are empty.
C16_FailedFilterKeepsVisible ==
  [][MountQueryRejected => filteredMenuItems' = <<>>]_vars

\* C17: once opening the database or ensuring the schema has failed, the
\* instance has no store handle, its loading flag is cleared, nothing of
\* loadMenuData is awaited or retried, and it has issued and issues no GetAll, no
\* fetch, no insert and no Filter query, whatever is typed afterwards.
C17_OpenFailureStopsInitialization ==
  outcome = "openFailed" =>
    /\ ~db
    /\ ~loading
    /\ pc = "done"
    /\ menuItems = <<>>
    /\ filteredMenuItems = <<>>
    /\ categories = <<>>
    /\ nFetch = 0
    /\ nInsert = 0
    /\ inFlight = EmptyBag

\* after the failure the user has typed "s" and the debounce timer has fired
C17_Witness ==
  /\ outcome = "openFailed"
  /\ userData # <<>>
  /\ debouncedSearchText = <<"s">>
  /\ timer = <<>>

\* the row GetAll is to return for a menu element: its name, price, description
\* and image, and its category when it has one, "Main" when it has none
RowOf(row, item) ==
  /\ row.name = item.name
  /\ row.price = item.price
  /\ row.description = item.description
  /\ row.image = item.image
  /\ row.category = IF "category" \in DOMAIN item THEN item.category ELSE "Main"

\* C18: after a successful bootstrap of an empty store, GetAll returns exactly one
\* row per element of the remote menu array, carrying the element's name, price,
\* description and image, and its category when present or "Main" when omitted.
C18_StoredRowsCarryElements ==
  outcome = "stored" =>
    \E data \in Docs :
      /\ IsMenuArray(data)
      /\ Len(menuItems) = Len(data.menu)
      /\ \A k \in 1..Len(data.menu) :
           Cardinality({i \in 1..Len(menuItems) : RowOf(menuItems[i], data.menu[k])}) = 1

\* the profile fails saveChanges' validation as the claim words it: first name or
\* email blank, email malformed, or a non-empty phone number that does not validate
FailsValidation(p) ==
  \/ IsBlank(p.firstName)
  \/ IsBlank(p.email)
  \/ ~emailRegexTest(p.email)
  \/ (p.phoneNumber # <<>> /\ ~isValidPhoneNumber(p.phoneNumber))

ValidationAlerts == {"required", "email", "phone"}

\* C19: saveChanges writes nothing when validation fails: no write of 'userData' or
\* 'profileSettings' is started from a profile that fails validation, and the
\* press that is answered with a validation alert leaves both records, the
\* in-memory profile and the awaited writes as they were, the unsaved-changes flag
\* still set.
C19_RejectedSaveWritesNothing ==
  [][/\ FailsValidation(profileData) =>
          BagCardinality(saves') <= BagCardinality(saves)
     /\ \A save \in BagToSet(saves') : ~FailsValidation(save.data)
     /\ (profileAlert' \in ValidationAlerts /\ profileAlert' # profileAlert) =>
          /\ FailsValidation(profileData)
          /\ storage' = storage
          /\ profileData' = profileData
          /\ saves' = saves
          /\ hasChanges /\ hasChanges']_vars

\* a six-digit phone number was entered over a saved profile and Save was answered
\* with the phone alert: the stored settings are still those of the earlier save
C19_Witness ==
  /\ profileAlert = "phone"
  /\ DigitsOf(profileData.phoneNumber) = SixDigits
  /\ ~IsBlank(profileData.firstName)
  /\ emailRegexTest(profileData.email)
  /\ hasChanges
  /\ saves = EmptyBag
  /\ storage.profileSettings # <<>>
  /\ storage.profileSettings[1].phoneNumber = <<>>

\* C20: a raw input of exactly six digits is formatted as "(ddd) ddd", with no
\* trailing separator: "555123" gives "(555) 123".
C20_SixDigitsNoTrailingSeparator ==
  phoneInput = SixDigits =>
    profileData.phoneNumber = <<"(", "5", "5", "5", ")", " ", "1", "2", "3">>

\* "(ddd) ddd-dddd" built from the first ten of the digits ds
TenDigitFormat(ds) ==
  <<"(", ds[1], ds[2], ds[3], ")", " ", ds[4], ds[5], ds[6], "-",
    ds[7], ds[8], ds[9], ds[10]>>

\* C21: a raw input with ten or more digits is formatted as "(ddd) ddd-dddd" from
\* its first ten digits and that value passes validation; a value built from one
\* to nine digits fails validation, and Save starts its writes only for a phone
\* number that is empty or has exactly ten digits.
C21_TenDigitsFormatAndValidate ==
  LET typed == DigitsOf(phoneInput) IN
    /\ Len(typed) >= 10 =>
         /\ profileData.phoneNumber = TenDigitFormat(typed)
         /\ isValidPhoneNumber(profileData.phoneNumber)
    /\ Len(typed) \in 1..9 =>
         /\ profileData.phoneNumber # <<>>
         /\ ~isValidPhoneNumber(profileData.phoneNumber)
    /\ \A save \in BagToSet(saves) :
         \/ save.data.phoneNumber = <<>>
         \/ Len(DigitsOf(save.data.phoneNumber)) = 10

\* eleven digits were pasted, the field shows the first ten formatted, and Save
\* has started its writes with that value
C21_Witness ==
  /\ phoneInput = PastedDigits
  /\ profileData.phoneNumber = TenDigitFormat(TenDigits)
  /\ \E save \in BagToSet(saves) : save.data.phoneNumber = profileData.phoneNumber

\* the record parsed from a stored item, the empty record when the key is absent
RecordOf(item) == IF item = <<>> THEN <<>> ELSE item[1]

\* view has the keys of u and of s, with s's value where both have the key
IsMergeOf(view, u, s) ==
  /\ DOMAIN view = DOMAIN u \cup DOMAIN s
  /\ \A k \in DOMAIN view : view[k] = IF k \in DOMAIN s THEN s[k] ELSE u[k]

\* p shows every key of u and of s, with s's value where both have the key
ShowsMergeOf(p, u, s) ==
  \A k \in DOMAIN u \cup DOMAIN s :
    /\ k \in DOMAIN p
    /\ p[k] = IF k \in DOMAIN s THEN s[k] ELSE u[k]

C23_TimerFiringDispatchesOneQuery ==
  [][(instance' = instance /\ db /\ Len(timer') < Len(timer))
       => BagCardinality(inFlight') = BagCardinality(inFlight) + 1]_vars

\* the table holds one row for every element of a remote document, in its order
HoldsWholeDocument ==
  \E data \in Docs :
    /\ IsMenuArray(data)
    /\ Len(table) = Len(data.menu)
    /\ \A k \in 1..Len(table) : table[k].name = data.menu[k].name

\* C24: when the bootstrap has failed at the fetch, at the parse or at an insert,
\* the store holds zero rows or every row of the remote document, never a
\* non-empty strict subset.
C24_FailedBootstrapAllOrNothing ==
  outcome \in {"fetchFailed", "parseFailed", "insertFailed"}
    => table = <<>> \/ HoldsWholeDocument

\* C25: whenever 'onboardingCompleted' is persisted as 'true' and
\* handleOnboardingComplete is not between its two writes, a userData record is
\* persisted too, also after a write of handleOnboardingComplete has failed.
C25_OnboardingFlagImpliesUserData ==
  (storage.onboardingCompleted = <<"true">> /\ appPc # "setUserData")
    => storage.userData # <<>>

\* the profile the persisted records give: the defaults, the stored user record
\* over them, the stored settings record over that
PersistedProfile ==
  WithSettings(WithUserData(DefaultProfile, storage.userData), storage.profileSettings)

\* C26: once a confirmed Discard has reloaded the profile and no save has completed
\* since, every field of the in-memory profile equals the last persisted state
\* (the default where nothing was persisted) and hasChanges is false, whether or
\* not a profileSettings record was ever saved.
C26_DiscardRestoresPersisted ==
  (profileAlert = "discard" /\ loadPc = "done" /\ saves = EmptyBag /\ ~hasChanges)
    => profileData = PersistedProfile

\* C27: once a confirmed logout has completed and the app shows the onboarding
\* flow, none of the keys userData, profileSettings and onboardingCompleted is
\* persisted, whatever saveChanges was doing when the logout was confirmed.
C27_NothingPersistedAfterLogout ==
  ~isOnboardingCompleted => storage = NoItems

\* C28: when every awaited storage and network operation eventually completes, the
\* loading flag of a mounted home screen eventually becomes false, on every path of
\* the initialization, and that instance never sets it back to true.
C28_LoadingEventuallyEnds ==
  /\ [](loading => <>(~loading))
  /\ [][(instance' = instance /\ ~loading) => ~loading']_vars

\* a launch whose fetch failed and a second launch that stored the menu have both
\* ended loading
C28_Witness ==
  /\ instance = 2
  /\ prev.outcome = "fetchFailed"
  /\ outcome = "stored"
  /\ pc = "done"
  /\ ~loading
====
